---- MODULE Spec2Model ----
(***************************************************************************)
(* Model of solution.py: try_login, try_get and main, run on one asyncio   *)
(* task.  Every await of an HTTP request is a suspension point; the server *)
(* (the environment) answers each request with any status and body, or the *)
(* transport raises.                                                       *)
(***************************************************************************)
EXTENDS Integers, Sequences, FiniteSets, TLC

\* ------------------------------------------------------------------ bounds
\* Total number of HTTP requests one run of main may send in the model.
MaxRequests == 8

\* --------------------------------------------------------------- constants
MAX_RETRIES == 5

\* Python's None (also what dict.get returns for a missing key or JSON null).
None == "<None>"

creds == [username |-> "guest", password |-> "guest"]

login_url == "/api/login"

secret_urls == <<"/api/secret1", "/api/secret2", "/api/secret3">>

\* ------------------------------------------------------------- environment
\* Status codes the server may answer with: 200, 401 and one other status.
Statuses == {200, 401, 500}

\* Values the server may put in the access_token field of a login response.
TokenValues == {None, "", "T1", "T2"}

\* The answer the i-th resource endpoint serves.
Answer(i) == <<"A1", "A2", "A3">>[i]

\* Values the server may put in the answer field of resource i's response.
AnswerValues(i) == {None, "", Answer(i)}

\* A decoded JSON body, reduced to the one field the caller reads:
\* has = the key is present, val = its value (None for JSON null).
NoBody == [has |-> FALSE, val |-> None]

LoginBodies == {NoBody} \cup {[has |-> TRUE, val |-> v] : v \in TokenValues}

SecretBodies(i) == {NoBody} \cup {[has |-> TRUE, val |-> v] : v \in AnswerValues(i)}

\* No request in flight / no response yet.
NoReq == [method |-> "-", path |-> "-", auth |-> "-", json |-> "-"]

NoResp == [status |-> 0, body |-> NoBody]

\* ------------------------------------------------------------------- state
VARIABLES
    pc,             \* position of the single task
    sessionOpen,    \* the aiohttp.ClientSession of main is open
    token,          \* main: token
    idx,            \* main: position of the for loop in secret_urls (1-based)
    resp,           \* main: resp, the value try_get returned
    answers,        \* main: answers
    caller,         \* who called try_login: "main" or "try_get"
    login_attempts, \* try_login: attempts
    login_ret,      \* value returned by the last try_login call
    get_token,      \* try_get: token (parameter, reassigned on re-login)
    get_attempts,   \* try_get: attempts
    log,            \* the records handed to the logger, in order
    inflight,       \* the request awaiting its response, or NoReq
    \* observations of the run (never read by the program)
    posts,          \* login POSTs sent so far in the run
    gets,           \* GETs sent so far in the run
    loginPosts,     \* POSTs sent by the current try_login call
    getGets,        \* GETs sent by the current try_get call
    getLogins,      \* try_login calls made by the current try_get call
    firstGet,       \* per resource: status answered to its first GET, or 0
    seedStatus,     \* status answered to the first login POST of the run, or 0
    lastResp,       \* the last response received
    lastLoginOk,    \* token returned by the last try_login call that returned a
                    \* non-empty token, None while there was none
    fetched         \* the values try_get returned to main, in order

vars == <<pc, sessionOpen, token, idx, resp, answers, caller, login_attempts,
          login_ret, get_token, get_attempts, log, inflight, posts, gets,
          loginPosts, getGets, getLogins, firstGet, seedStatus, lastResp,
          lastLoginOk, fetched>>

mainVars == <<token, idx, resp, answers>>
loginVars == <<caller, login_attempts, login_ret>>
getVars == <<get_token, get_attempts>>
obsCalls == <<loginPosts, getGets, getLogins>>

\* ----------------------------------------------------------------- helpers
\* Mutant of Truthy: only None is falsy (`is not None`).
Truthy_NotNone(v) == v # None

\* Python truthiness of an Optional[str]: `if not x` holds for None and "".
Truthy(v) == v \notin {None, ""}

\* Mutant of JsonGet: an empty value is dropped like a missing key
\* (body.get(key) or None).
JsonGet_DropEmpty(body) == IF body.has /\ body.val # "" THEN body.val ELSE None

\* body.get(key) on the decoded body.
JsonGet(body) == IF body.has THEN body.val ELSE None

\* f"Bearer {token}": None is formatted as the text None.
Bearer(t) == IF t = None THEN "Bearer None" ELSE "Bearer " \o t

\* session.get(url, headers={"Authorization": f"Bearer {token}"}) for the
\* i-th url.
GetRequest(i, t) ==
    [method |-> "GET", path |-> secret_urls[i], auth |-> Bearer(t), json |-> "-"]

\* session.post(url, json=creds).
LoginRequest == [method |-> "POST", path |-> login_url, auth |-> "-", json |-> creds]

LogRec(level, msg, arg) == [level |-> level, msg |-> msg, arg |-> arg]

\* Where try_login returns to.
ReturnPoint(c) == IF c = "main" THEN "main_seed" ELSE "get_relogin"

Init ==
    /\ pc = "main_start"
    /\ sessionOpen = FALSE
    /\ token = None
    /\ idx = 1
    /\ resp = None
    /\ answers = <<>>
    /\ caller = "main"
    /\ login_attempts = 0
    /\ login_ret = None
    /\ get_token = None
    /\ get_attempts = 0
    /\ log = <<>>
    /\ inflight = NoReq
    /\ posts = 0
    /\ gets = 0
    /\ loginPosts = 0
    /\ getGets = 0
    /\ getLogins = 0
    /\ firstGet = [i \in 1..Len(secret_urls) |-> 0]
    /\ seedStatus = 0
    /\ lastResp = NoResp
    /\ lastLoginOk = None
    /\ fetched = <<>>

\* ----------------------------------------------------------------- actions
\* main, lines 58-65: open the session and call try_login.
MainStart ==
    /\ pc = "main_start"
    /\ sessionOpen' = TRUE
    /\ caller' = "main"
    /\ login_attempts' = 0
    /\ loginPosts' = 0
    /\ pc' = "login_loop"
    /\ UNCHANGED <<mainVars, login_ret, getVars, log, inflight, posts, gets,
                   getGets, getLogins, firstGet, seedStatus, lastResp,
                   lastLoginOk, fetched>>

\* try_login, lines 31-32 and 36-37: the loop head.  While attempts is below
\* MAX_RETRIES send the POST; otherwise log the error and return None.
LoginLoop ==
    /\ pc = "login_loop"
    /\ IF login_attempts < MAX_RETRIES
       THEN /\ posts + gets < MaxRequests
            /\ inflight' = LoginRequest
            /\ posts' = posts + 1
            /\ loginPosts' = loginPosts + 1
            /\ pc' = "login_wait"
            /\ UNCHANGED <<login_ret, log>>
       ELSE /\ log' = Append(log, LogRec("ERROR", "Too many login attempts",
                                         <<login_attempts, MAX_RETRIES>>))
            /\ login_ret' = None
            /\ pc' = ReturnPoint(caller)
            /\ UNCHANGED <<inflight, posts, loginPosts>>
    /\ UNCHANGED <<sessionOpen, mainVars, caller, login_attempts, getVars, gets,
                   getGets, getLogins, firstGet, seedStatus, lastResp,
                   lastLoginOk, fetched>>

\* Mutant of LoginRecv: a 200 whose access_token is empty or missing is
\* retried instead of returned.
LoginRecv_RetryEmpty(status, body) ==
    /\ pc = "login_wait"
    /\ inflight' = NoReq
    /\ lastResp' = [status |-> status, body |-> body]
    /\ seedStatus' = IF posts = 1 THEN status ELSE seedStatus
    /\ IF status = 200 /\ body.has /\ body.val \notin {None, ""}
       THEN /\ login_ret' = body.val
            /\ lastLoginOk' = body.val
            /\ pc' = ReturnPoint(caller)
       ELSE /\ pc' = "login_loop"
            /\ UNCHANGED <<login_ret, lastLoginOk>>
    /\ UNCHANGED <<sessionOpen, mainVars, caller, login_attempts, getVars, log,
                   posts, gets, obsCalls, firstGet, fetched>>

\* Mutant of LoginRecv: a non-200 answer counts as an attempt
\* (attempts += 1 before going round the loop).
LoginRecv_Counting(status, body) ==
    /\ pc = "login_wait"
    /\ inflight' = NoReq
    /\ lastResp' = [status |-> status, body |-> body]
    /\ seedStatus' = IF posts = 1 THEN status ELSE seedStatus
    /\ IF status = 200
       THEN /\ login_ret' = JsonGet(body)
            /\ lastLoginOk' = IF Truthy(JsonGet(body)) THEN JsonGet(body) ELSE lastLoginOk
            /\ pc' = ReturnPoint(caller)
            /\ UNCHANGED login_attempts
       ELSE /\ pc' = "login_loop"
            /\ login_attempts' = login_attempts + 1
            /\ UNCHANGED <<login_ret, lastLoginOk>>
    /\ UNCHANGED <<sessionOpen, mainVars, caller, getVars, log,
                   posts, gets, obsCalls, firstGet, fetched>>

\* try_login, lines 32-35: the response to the POST arrives.  On 200 return
\* body.get('access_token'); on any other status go round the loop, attempts
\* unchanged.
LoginRecv(status, body) ==
    /\ pc = "login_wait"
    /\ inflight' = NoReq
    /\ lastResp' = [status |-> status, body |-> body]
    /\ seedStatus' = IF posts = 1 THEN status ELSE seedStatus
    /\ IF status = 200
       THEN /\ login_ret' = JsonGet(body)
            /\ lastLoginOk' = IF Truthy(JsonGet(body)) THEN JsonGet(body) ELSE lastLoginOk
            /\ pc' = ReturnPoint(caller)
       ELSE /\ pc' = "login_loop"
            /\ UNCHANGED <<login_ret, lastLoginOk>>
    /\ UNCHANGED <<sessionOpen, mainVars, caller, login_attempts, getVars, log,
                   posts, gets, obsCalls, firstGet, fetched>>

\* Mutant of MainSeed: main gives up when the seed login returned no token.
MainSeed_Abort ==
    /\ pc = "main_seed"
    /\ token' = login_ret
    /\ idx' = IF Truthy(login_ret) THEN 1 ELSE Len(secret_urls) + 1
    /\ pc' = "main_loop"
    /\ UNCHANGED <<sessionOpen, resp, answers, loginVars, getVars, log, inflight,
                   posts, gets, obsCalls, firstGet, seedStatus, lastResp,
                   lastLoginOk, fetched>>

\* main, line 65: token = await try_login(session); the for loop starts.
MainSeed ==
    /\ pc = "main_seed"
    /\ token' = login_ret
    /\ idx' = 1
    /\ pc' = "main_loop"
    /\ UNCHANGED <<sessionOpen, resp, answers, loginVars, getVars, log, inflight,
                   posts, gets, obsCalls, firstGet, seedStatus, lastResp,
                   lastLoginOk, fetched>>

\* Mutant of MainLoop: the token left by the previous try_get call is carried
\* into the next call instead of main's token.
MainLoop_Carry ==
    /\ pc = "main_loop"
    /\ IF idx <= Len(secret_urls)
       THEN /\ get_token' = IF idx = 1 THEN token ELSE get_token
            /\ get_attempts' = 0
            /\ getGets' = 0
            /\ getLogins' = 0
            /\ pc' = "get_loop"
            /\ UNCHANGED sessionOpen
       ELSE /\ sessionOpen' = FALSE
            /\ pc' = "main_emit"
            /\ UNCHANGED <<getVars, getGets, getLogins>>
    /\ UNCHANGED <<mainVars, loginVars, log, inflight, posts, gets, loginPosts,
                   firstGet, seedStatus, lastResp, lastLoginOk, fetched>>

\* main, lines 66-67 and the exit of `async with`: call try_get for the next
\* url with main's token, or leave the loop and close the session.
MainLoop ==
    /\ pc = "main_loop"
    /\ IF idx <= Len(secret_urls)
       THEN /\ get_token' = token
            /\ get_attempts' = 0
            /\ getGets' = 0
            /\ getLogins' = 0
            /\ pc' = "get_loop"
            /\ UNCHANGED sessionOpen
       ELSE /\ sessionOpen' = FALSE
            /\ pc' = "main_emit"
            /\ UNCHANGED <<getVars, getGets, getLogins>>
    /\ UNCHANGED <<mainVars, loginVars, log, inflight, posts, gets, loginPosts,
                   firstGet, seedStatus, lastResp, lastLoginOk, fetched>>

\* Mutant of GetLoop: the GET is sent without awaiting its response, so the
\* loop sends the next one at once.
GetLoop_NoAwait ==
    /\ pc = "get_loop"
    /\ IF get_attempts < MAX_RETRIES
       THEN /\ posts + gets < MaxRequests
            /\ inflight' = GetRequest(idx, get_token)
            /\ gets' = gets + 1
            /\ getGets' = getGets + 1
            /\ pc' = "get_loop"
            /\ UNCHANGED <<resp, log>>
       ELSE /\ log' = Append(log, LogRec("ERROR", "Too many login attempts",
                                         <<get_attempts, MAX_RETRIES>>))
            /\ resp' = None
            /\ pc' = "main_check"
            /\ UNCHANGED <<inflight, gets, getGets>>
    /\ UNCHANGED <<sessionOpen, token, idx, answers, loginVars, getVars, posts,
                   loginPosts, getLogins, firstGet, seedStatus, lastResp,
                   lastLoginOk, fetched>>

\* try_get, lines 42-43 and 53-54: the loop head.
GetLoop ==
    /\ pc = "get_loop"
    /\ IF get_attempts < MAX_RETRIES
       THEN /\ posts + gets < MaxRequests
            /\ inflight' = GetRequest(idx, get_token)
            /\ gets' = gets + 1
            /\ getGets' = getGets + 1
            /\ pc' = "get_wait"
            /\ UNCHANGED <<resp, log>>
       ELSE /\ log' = Append(log, LogRec("ERROR", "Too many login attempts",
                                         <<get_attempts, MAX_RETRIES>>))
            /\ resp' = None
            /\ pc' = "main_check"
            /\ UNCHANGED <<inflight, gets, getGets>>
    /\ UNCHANGED <<sessionOpen, token, idx, answers, loginVars, getVars, posts,
                   loginPosts, getLogins, firstGet, seedStatus, lastResp,
                   lastLoginOk, fetched>>

\* Mutant of GetRecv: a status other than 200 and 401 is a failure: it is
\* logged and try_get returns None.
GetRecv_FailOther(status, body) ==
    /\ pc = "get_wait"
    /\ inflight' = NoReq
    /\ lastResp' = [status |-> status, body |-> body]
    /\ firstGet' = IF getGets = 1 THEN [firstGet EXCEPT ![idx] = status] ELSE firstGet
    /\ CASE status = 200 ->
              /\ resp' = JsonGet(body)
              /\ pc' = "main_check"
              /\ UNCHANGED <<log, caller, login_attempts, loginPosts, getLogins>>
         [] status = 401 ->
              /\ log' = Append(log, LogRec("WARNING", "401 Unauthorized, retrying...", <<>>))
              /\ caller' = "try_get"
              /\ login_attempts' = 0
              /\ loginPosts' = 0
              /\ getLogins' = getLogins + 1
              /\ pc' = "login_loop"
              /\ UNCHANGED resp
         [] OTHER ->
              /\ log' = Append(log, LogRec("ERROR", "Unexpected status", <<status>>))
              /\ resp' = None
              /\ pc' = "main_check"
              /\ UNCHANGED <<caller, login_attempts, loginPosts, getLogins>>
    /\ UNCHANGED <<sessionOpen, token, idx, answers, login_ret, getVars, posts,
                   gets, getGets, seedStatus, lastLoginOk, fetched>>

\* try_get, lines 43-49: the response to the GET arrives.  200 returns
\* body.get('answer'); 401 logs a warning and calls try_login; any other
\* status goes round the loop, attempts unchanged.
GetRecv(status, body) ==
    /\ pc = "get_wait"
    /\ inflight' = NoReq
    /\ lastResp' = [status |-> status, body |-> body]
    /\ firstGet' = IF getGets = 1 THEN [firstGet EXCEPT ![idx] = status] ELSE firstGet
    /\ CASE status = 200 ->
              /\ resp' = JsonGet(body)
              /\ pc' = "main_check"
              /\ UNCHANGED <<log, caller, login_attempts, loginPosts, getLogins>>
         [] status = 401 ->
              /\ log' = Append(log, LogRec("WARNING", "401 Unauthorized, retrying...", <<>>))
              /\ caller' = "try_get"
              /\ login_attempts' = 0
              /\ loginPosts' = 0
              /\ getLogins' = getLogins + 1
              /\ pc' = "login_loop"
              /\ UNCHANGED resp
         [] OTHER ->
              /\ pc' = "get_loop"
              /\ UNCHANGED <<resp, log, caller, login_attempts, loginPosts, getLogins>>
    /\ UNCHANGED <<sessionOpen, token, idx, answers, login_ret, getVars, posts,
                   gets, getGets, seedStatus, lastLoginOk, fetched>>

\* Mutant of GetRelogin: the token try_login returned is tested but not
\* assigned, so the retry carries the rejected token.
GetRelogin_KeepToken ==
    /\ pc = "get_relogin"
    /\ UNCHANGED get_token
    /\ IF ~Truthy(login_ret)
       THEN /\ log' = Append(log, LogRec("ERROR", "Error getting new access token", <<>>))
            /\ resp' = None
            /\ pc' = "main_check"
       ELSE /\ pc' = "get_loop"
            /\ UNCHANGED <<resp, log>>
    /\ UNCHANGED <<sessionOpen, token, idx, answers, loginVars, get_attempts,
                   inflight, posts, gets, obsCalls, firstGet, seedStatus, lastResp,
                   lastLoginOk, fetched>>

\* Mutant of GetRelogin: a failed re-login logs the error but goes round the
\* loop (the return is missing).
GetRelogin_Retry ==
    /\ pc = "get_relogin"
    /\ get_token' = login_ret
    /\ IF ~Truthy(login_ret)
       THEN /\ log' = Append(log, LogRec("ERROR", "Error getting new access token", <<>>))
            /\ pc' = "get_loop"
            /\ UNCHANGED resp
       ELSE /\ pc' = "get_loop"
            /\ UNCHANGED <<resp, log>>
    /\ UNCHANGED <<sessionOpen, token, idx, answers, loginVars, get_attempts,
                   inflight, posts, gets, obsCalls, firstGet, seedStatus, lastResp,
                   lastLoginOk, fetched>>

\* try_get, lines 49-52: token = await try_login(session); a falsy token
\* logs an error and returns None, otherwise the loop goes round.
GetRelogin ==
    /\ pc = "get_relogin"
    /\ get_token' = login_ret
    /\ IF ~Truthy(login_ret)
       THEN /\ log' = Append(log, LogRec("ERROR", "Error getting new access token", <<>>))
            /\ resp' = None
            /\ pc' = "main_check"
       ELSE /\ pc' = "get_loop"
            /\ UNCHANGED <<resp, log>>
    /\ UNCHANGED <<sessionOpen, token, idx, answers, loginVars, get_attempts,
                   inflight, posts, gets, obsCalls, firstGet, seedStatus, lastResp,
                   lastLoginOk, fetched>>

\* Mutant of MainCheck: a failed resource leaves the loop (break instead of
\* continue).
MainCheck_Abort ==
    /\ pc = "main_check"
    /\ fetched' = Append(fetched, resp)
    /\ IF ~Truthy(resp)
       THEN /\ log' = Append(log, LogRec("ERROR", "Error getting secret at",
                                         <<secret_urls[idx]>>))
            /\ idx' = Len(secret_urls) + 1
            /\ UNCHANGED answers
       ELSE /\ answers' = Append(answers, resp)
            /\ idx' = idx + 1
            /\ UNCHANGED log
    /\ pc' = "main_loop"
    /\ UNCHANGED <<sessionOpen, token, resp, loginVars, getVars, inflight, posts,
                   gets, obsCalls, firstGet, seedStatus, lastResp, lastLoginOk>>

\* Mutant of MainCheck: the answer is put in front of answers.
MainCheck_Prepend ==
    /\ pc = "main_check"
    /\ fetched' = Append(fetched, resp)
    /\ IF ~Truthy(resp)
       THEN /\ log' = Append(log, LogRec("ERROR", "Error getting secret at",
                                         <<secret_urls[idx]>>))
            /\ UNCHANGED answers
       ELSE /\ answers' = <<resp>> \o answers
            /\ UNCHANGED log
    /\ idx' = idx + 1
    /\ pc' = "main_loop"
    /\ UNCHANGED <<sessionOpen, token, resp, loginVars, getVars, inflight, posts,
                   gets, obsCalls, firstGet, seedStatus, lastResp, lastLoginOk>>

\* Mutant of MainCheck: the token try_get ended with is written back to
\* main's token (the refreshed token is threaded through).
MainCheck_Refresh ==
    /\ pc = "main_check"
    /\ fetched' = Append(fetched, resp)
    /\ IF ~Truthy(resp)
       THEN /\ log' = Append(log, LogRec("ERROR", "Error getting secret at",
                                         <<secret_urls[idx]>>))
            /\ UNCHANGED answers
       ELSE /\ answers' = Append(answers, resp)
            /\ UNCHANGED log
    /\ token' = get_token
    /\ idx' = idx + 1
    /\ pc' = "main_loop"
    /\ UNCHANGED <<sessionOpen, resp, loginVars, getVars, inflight, posts,
                   gets, obsCalls, firstGet, seedStatus, lastResp, lastLoginOk>>

\* Mutant of MainCheck: only None counts as a failure (`if resp is None`).
MainCheck_NoneOnly ==
    /\ pc = "main_check"
    /\ fetched' = Append(fetched, resp)
    /\ IF resp = None
       THEN /\ log' = Append(log, LogRec("ERROR", "Error getting secret at",
                                         <<secret_urls[idx]>>))
            /\ UNCHANGED answers
       ELSE /\ answers' = Append(answers, resp)
            /\ UNCHANGED log
    /\ idx' = idx + 1
    /\ pc' = "main_loop"
    /\ UNCHANGED <<sessionOpen, token, resp, loginVars, getVars, inflight, posts,
                   gets, obsCalls, firstGet, seedStatus, lastResp, lastLoginOk>>

\* main, lines 67-71: resp = await try_get(...); a falsy resp logs an error
\* and continues, otherwise resp is appended to answers.
MainCheck ==
    /\ pc = "main_check"
    /\ fetched' = Append(fetched, resp)
    /\ IF ~Truthy(resp)
       THEN /\ log' = Append(log, LogRec("ERROR", "Error getting secret at",
                                         <<secret_urls[idx]>>))
            /\ UNCHANGED answers
       ELSE /\ answers' = Append(answers, resp)
            /\ UNCHANGED log
    /\ idx' = idx + 1
    /\ pc' = "main_loop"
    /\ UNCHANGED <<sessionOpen, token, resp, loginVars, getVars, inflight, posts,
                   gets, obsCalls, firstGet, seedStatus, lastResp, lastLoginOk>>

\* main, lines 72-73: log.info each answer.
MainEmit ==
    /\ pc = "main_emit"
    /\ log' = log \o [i \in 1..Len(answers) |-> LogRec("INFO", answers[i], <<>>)]
    /\ pc' = "done"
    /\ UNCHANGED <<sessionOpen, mainVars, loginVars, getVars, inflight, posts,
                   gets, obsCalls, firstGet, seedStatus, lastResp, lastLoginOk,
                   fetched>>

\* Mutant of TransportError: the session is not closed when the exception
\* leaves main (the session is created without `async with`).
TransportError_Leak ==
    /\ pc \in {"login_wait", "get_wait"}
    /\ inflight' = NoReq
    /\ pc' = "raised"
    /\ UNCHANGED <<sessionOpen, mainVars, loginVars, getVars, log, posts, gets,
                   obsCalls, firstGet, seedStatus, lastResp, lastLoginOk, fetched>>

\* Mutant of TransportError: the answers collected so far are still logged
\* when the exception leaves main (lines 72-73 in a `finally`).
TransportError_EmitPartial ==
    /\ pc \in {"login_wait", "get_wait"}
    /\ inflight' = NoReq
    /\ sessionOpen' = FALSE
    /\ log' = log \o [i \in 1..Len(answers) |-> LogRec("INFO", answers[i], <<>>)]
    /\ pc' = "raised"
    /\ UNCHANGED <<mainVars, loginVars, getVars, posts, gets, obsCalls,
                   firstGet, seedStatus, lastResp, lastLoginOk, fetched>>

\* session.post / session.get raise (lines 32, 43): nothing catches, the
\* exception leaves try_login / try_get, `async with` closes the session and
\* the exception leaves main before lines 72-73.
TransportError ==
    /\ pc \in {"login_wait", "get_wait"}
    /\ inflight' = NoReq
    /\ sessionOpen' = FALSE
    /\ pc' = "raised"
    /\ UNCHANGED <<mainVars, loginVars, getVars, log, posts, gets, obsCalls,
                   firstGet, seedStatus, lastResp, lastLoginOk, fetched>>

LoginResponse == \E status \in Statuses : \E body \in LoginBodies :
    LoginRecv(status, IF status = 200 THEN body ELSE NoBody)

GetResponse ==
    /\ pc = "get_wait"
    /\ \E status \in Statuses : \E body \in SecretBodies(idx) :
          GetRecv(status, IF status = 200 THEN body ELSE NoBody)

Next ==
    \/ MainStart
    \/ LoginLoop
    \/ LoginResponse
    \/ MainSeed
    \/ MainLoop
    \/ GetLoop
    \/ GetResponse
    \/ GetRelogin
    \/ MainCheck
    \/ MainEmit
    \/ TransportError

Spec == Init /\ [][Next]_vars

\* The program's output: the INFO records of the log, in order.
Output == [i \in 1..Len(SelectSeq(log, LAMBDA r : r.level = "INFO")) |->
              SelectSeq(log, LAMBDA r : r.level = "INFO")[i].msg]

\* ------------------------------------------------------------------ claims
\* The field of a decoded body as the server sent it (None when the key is
\* missing or null).
FieldSent(body) == IF body.has THEN body.val ELSE None

\* C1: a try_login call whose POSTs are never answered 200 sends at most
\* MAX_RETRIES POSTs (and then returns None after logging one error).  While
\* try_login is running every POST it has sent so far was answered non-200,
\* so the claim bounds loginPosts in every state.
C1_LoginTerminates == loginPosts <= MAX_RETRIES

\* C2: a single try_get call sends at most MAX_RETRIES GETs in total,
\* whatever the statuses, and then logs an error and returns None.
C2_GetBounded == getGets <= MAX_RETRIES

\* C3: when the first GET of a try_get call is answered 401, try_login is
\* called exactly once before the second GET, the second GET carries the token
\* that call returned, and a 200 to the second GET makes try_get return that
\* response's answer.
C3_ReauthOnce ==
    /\ (pc \in {"login_loop", "login_wait", "get_relogin"} /\ caller = "try_get"
            /\ getGets = 1)
        => (firstGet[idx] = 401 /\ getLogins = 1)
    /\ (pc = "get_wait" /\ getGets = 2 /\ firstGet[idx] = 401)
        => (getLogins = 1 /\ Truthy(login_ret)
                /\ inflight = GetRequest(idx, login_ret))
    /\ (pc = "main_check" /\ getGets = 2 /\ getLogins = 1 /\ firstGet[idx] = 401)
        => (lastResp.status = 200 /\ resp = FieldSent(lastResp.body))

C3_Witness ==
    /\ pc = "main_check" /\ getGets = 2 /\ getLogins = 1 /\ firstGet[idx] = 401
    /\ resp = Answer(idx)
    /\ Truthy(token) /\ get_token # token

\* C4: when the try_login called for a 401 recovery returns None, try_get logs
\* "Error getting new access token" and returns None in that very step: no GET
\* and no POST is sent, and the next position is main's check of the result.
C4_ReauthFailed ==
    [][(pc = "get_relogin" /\ login_ret = None)
        => /\ pc' = "main_check"
           /\ resp' = None
           /\ log' = Append(log, LogRec("ERROR", "Error getting new access token", <<>>))
           /\ gets' = gets /\ posts' = posts /\ getGets' = getGets
           /\ inflight' = NoReq]_vars

C4_Witness ==
    /\ pc = "main_check" /\ getLogins = 1 /\ getGets = 1
    /\ login_ret = None /\ resp = None
    /\ Len(log) > 0 /\ log[Len(log)].msg = "Error getting new access token"

\* C5: whatever the token (None included), when the first GET of a try_get
\* call is answered 200, try_get has returned that response's answer after
\* exactly one GET and without calling try_login.
C5_FirstTry ==
    (idx <= Len(secret_urls) /\ firstGet[idx] = 200)
        => /\ pc = "main_check"
           /\ getGets = 1 /\ getLogins = 0
           /\ lastResp.status = 200
           /\ resp = FieldSent(lastResp.body)

C5_Witness ==
    /\ pc = "main_check" /\ idx <= Len(secret_urls) /\ firstGet[idx] = 200
    /\ get_token = None /\ resp = Answer(idx)

\* C6: every POST goes to /api/login with the credentials guest/guest, and a
\* 200 makes try_login return the response's access_token in that very step,
\* with no further request sent.
C6_Login ==
    /\ [](inflight.method = "POST"
            => inflight = [method |-> "POST", path |-> "/api/login", auth |-> "-",
                           json |-> [username |-> "guest", password |-> "guest"]])
    /\ [][(pc = "login_wait" /\ pc' # "raised" /\ lastResp'.status = 200)
            => /\ pc' = (IF caller = "main" THEN "main_seed" ELSE "get_relogin")
               /\ login_ret' = FieldSent(lastResp'.body)
               /\ posts' = posts /\ gets' = gets /\ inflight' = NoReq]_vars

C6_Witness ==
    /\ pc = "main_seed" /\ loginPosts = 1 /\ lastResp.status = 200
    /\ login_ret = "T1"

\* C7: with resource 1 answered 200/A1, resource 2 answered 401 and every
\* re-login POST answered non-200, the re-login gives up once MAX_RETRIES
\* POSTs have failed (main then goes on), and a run in which resource 2 ended
\* Absent after a 401 outputs exactly A1, A3 with an error for /api/secret2.
C7_FailureCase ==
    /\ (pc = "login_loop" /\ caller = "try_get" /\ idx = 2 /\ firstGet[1] = 200
            /\ fetched = <<"A1">> /\ firstGet[2] = 401 /\ getGets = 1
            /\ loginPosts >= MAX_RETRIES)
        => login_attempts >= MAX_RETRIES
    /\ (pc = "done" /\ firstGet = <<200, 401, 200>> /\ fetched = <<"A1", None, "A3">>)
        => /\ Output = <<"A1", "A3">>
           /\ LogRec("ERROR", "Error getting secret at", <<"/api/secret2">>)
                \in {log[i] : i \in 1..Len(log)}

\* C8: when the first login POST is answered 200 with T1 and every resource
\* is answered 200 on its first GET with A1, A2, A3, a finished run has sent
\* one POST and three GETs and its output is A1, A2, A3 in that order.
C8_HappyPath ==
    (pc = "done" /\ seedStatus = 200 /\ token = "T1"
        /\ firstGet = <<200, 200, 200>> /\ fetched = <<"A1", "A2", "A3">>)
        => (posts = 1 /\ gets = 3 /\ Output = <<"A1", "A2", "A3">>)

C8_Witness ==
    /\ pc = "done" /\ seedStatus = 200 /\ token = "T1"
    /\ firstGet = <<200, 200, 200>> /\ fetched = <<"A1", "A2", "A3">>

\* C9: when try_get returns None for a resource, main logs an error naming
\* it, keeps answers, and moves to the next url; try_get is called for every
\* url in list order, and the output of a finished run is the subsequence of
\* the non-empty values try_get returned, in input order.
C9_BatchContinues ==
    /\ [][(pc = "main_check" /\ resp = None)
            => /\ log' = Append(log, LogRec("ERROR", "Error getting secret at",
                                            <<secret_urls[idx]>>))
               /\ answers' = answers
               /\ idx' = idx + 1
               /\ pc' = "main_loop"]_vars
    /\ [][(pc = "main_loop" /\ idx <= Len(secret_urls))
            => (pc' = "get_loop" /\ idx' = idx)]_vars
    /\ [](inflight.method = "GET"
            => (inflight.path = secret_urls[Len(fetched) + 1] /\ idx = Len(fetched) + 1))
    /\ [](pc = "done"
            => /\ Len(fetched) = Len(secret_urls)
               /\ \A i \in 1..Len(secret_urls) : firstGet[i] # 0
               /\ Output = SelectSeq(fetched, LAMBDA v : v \notin {None, ""}))

C9_Witness ==
    /\ pc = "done" /\ fetched = <<"A1", None, "A3">> /\ firstGet[2] = 401
    /\ Output = <<"A1", "A3">>

\* C10 as stated: the token carried by any GET is the one returned by the most
\* recent successful try_login call, or no token (None, or the empty value a
\* login answered) while no login has succeeded.
C10_TokenFresh ==
    inflight.method = "GET"
        => \/ inflight.auth = Bearer(lastLoginOk)
           \/ lastLoginOk = None /\ inflight.auth \in {Bearer(None), Bearer("")}

\* C10 amended: until its try_get call re-authenticates, a GET carries main's
\* token (what main's one try_login call returned); after a 401 recovery in
\* that call it carries the non-empty token the call's latest try_login
\* returned.
C10_TokenSource ==
    inflight.method = "GET"
        => /\ getLogins = 0 => inflight.auth = Bearer(token)
           /\ getLogins > 0 => (Truthy(login_ret) /\ login_ret = lastLoginOk
                                    /\ inflight.auth = Bearer(login_ret))

C10_Witness ==
    /\ pc = "get_wait" /\ idx = 2 /\ getLogins = 0
    /\ Truthy(token) /\ Truthy(lastLoginOk) /\ lastLoginOk # token
    /\ inflight.auth = Bearer(token)

\* C11: main's token is assigned once, from the try_login call at the start
\* of main, and no fetch changes it: the first GET of every resource carries
\* that token, also after an earlier try_get call obtained another token by
\* 401 recovery.
C11_TokenSnapshot ==
    /\ [][token' # token => (pc = "main_seed" /\ gets = 0 /\ token' = login_ret)]_vars
    /\ [](pc \in {"login_loop", "login_wait", "main_seed"} /\ caller = "main"
            => posts + gets = loginPosts)
    /\ []((pc = "get_wait" /\ getGets = 1) => inflight = GetRequest(idx, token))

C11_Witness ==
    /\ pc = "get_wait" /\ getGets = 1 /\ idx = 3
    /\ token = "T1" /\ get_token = "T1" /\ lastLoginOk = "T2"
    /\ firstGet[1] = 401 /\ fetched[1] = "A1"
    /\ inflight = GetRequest(3, "T1")

\* C12: at most one request is in flight: a request is sent only while none
\* is awaiting its response, one at a time, and a GET in flight is for the
\* resource right after those try_get has already returned for.
C12_OneInFlight ==
    /\ [][(posts' + gets' # posts + gets)
            => /\ inflight = NoReq /\ inflight' # NoReq
               /\ posts' + gets' = posts + gets + 1
               /\ pc' \in {"login_wait", "get_wait"}]_vars
    /\ [](inflight # NoReq <=> pc \in {"login_wait", "get_wait"})
    /\ [](inflight.method = "GET"
            => (Len(fetched) = idx - 1 /\ inflight.path = secret_urls[idx]))
    /\ [][Len(fetched') # Len(fetched) => (inflight = NoReq /\ inflight' = NoReq)]_vars

C12_Witness ==
    /\ pc = "get_wait" /\ idx = 2 /\ Len(fetched) = 1 /\ getLogins = 1
    /\ inflight.method = "GET" /\ inflight.path = "/api/secret2"

\* C13: the session is open exactly while main is inside `async with`: it is
\* closed on every exit (the loop finished, with or without failed resources,
\* or a transport error propagated), a request is in flight only while it is
\* open, and none is sent once it is closed.
C13_SessionClosed ==
    /\ [](pc \in {"main_emit", "done", "raised"} => ~sessionOpen)
    /\ [](pc \notin {"main_start", "main_emit", "done", "raised"} => sessionOpen)
    /\ [](inflight # NoReq => sessionOpen)
    /\ [][(sessionOpen /\ ~sessionOpen')
            => (posts + gets > 0 /\ inflight' = NoReq
                    /\ pc' \in {"main_emit", "raised"})]_vars
    /\ [][(~sessionOpen /\ pc # "main_start")
            => (~sessionOpen' /\ posts' = posts /\ gets' = gets
                    /\ inflight' = NoReq)]_vars

C13_Witness ==
    /\ pc = "raised" /\ ~sessionOpen /\ inflight = NoReq
    /\ Len(fetched) = 2 /\ fetched[1] = None /\ fetched[2] = "A2"

\* C14: when the try_login call of main returns None, main goes on: every
\* resource is fetched in order, each first GET carrying the None token; main
\* calls try_login once, before the first GET, and every later try_login call
\* is made by try_get.
C14_SeedAbsent ==
    /\ [][(pc = "main_seed" /\ login_ret = None)
            => (pc' = "main_loop" /\ idx' = 1 /\ token' = None)]_vars
    /\ [][caller = "try_get" => caller' = "try_get"]_vars
    /\ []((pc \in {"login_loop", "login_wait", "main_seed"} /\ caller = "main")
            => (gets = 0 /\ posts = loginPosts))
    /\ [][getLogins' > getLogins
            => (pc = "get_wait" /\ lastResp'.status = 401 /\ caller' = "try_get"
                    /\ pc' = "login_loop")]_vars
    /\ []((pc \in {"login_loop", "login_wait", "get_relogin"} /\ gets > 0)
            => (caller = "try_get" /\ getLogins > 0))
    /\ []((pc = "get_wait" /\ getGets = 1 /\ token = None)
            => inflight = [method |-> "GET", path |-> secret_urls[idx],
                           auth |-> "Bearer None", json |-> "-"])
    /\ []((pc = "done" /\ token = None)
            => (Len(fetched) = Len(secret_urls)
                    /\ \A i \in 1..Len(secret_urls) : firstGet[i] # 0))

C14_Witness ==
    /\ pc = "done" /\ token = None /\ seedStatus = 200 /\ posts = 1
    /\ fetched = <<"A1", "A2", "A3">>

\* C15: the attempt counters of try_login and try_get are 0 in every
\* reachable state, whatever the branch taken, and no "Too many login
\* attempts" record is ever logged.
C15_CounterStuck ==
    /\ login_attempts = 0
    /\ get_attempts = 0
    /\ \A i \in 1..Len(log) : log[i].msg # "Too many login attempts"

C15_Witness ==
    /\ pc = "get_wait" /\ getGets = 3 /\ getLogins = 1 /\ loginPosts = 3
    /\ login_attempts = 0 /\ get_attempts = 0

\* C16: a GET answered with a status other than 200 and 401 makes try_get go
\* round its loop with nothing changed (no try_login call, no log record, same
\* token, same counter) and the loop sends the same GET again; try_get returns
\* only on a 200 or on a failed 401 recovery.
C16_OtherStatus ==
    /\ [][(pc = "get_wait" /\ pc' # "raised" /\ lastResp'.status \notin {200, 401})
            => /\ pc' = "get_loop"
               /\ UNCHANGED <<log, get_token, get_attempts, getLogins, posts,
                              gets, caller, login_attempts, resp, idx, token>>]_vars
    /\ [][pc = "get_loop"
            => /\ pc' = "get_wait"
               /\ inflight' = [method |-> "GET", path |-> secret_urls[idx],
                               auth |-> Bearer(get_token), json |-> "-"]
               /\ gets' = gets + 1]_vars
    /\ [][(pc \in {"get_loop", "get_wait", "get_relogin"} /\ pc' = "main_check")
            => \/ pc = "get_wait" /\ lastResp'.status = 200
               \/ pc = "get_relogin" /\ login_ret \in {None, ""}]_vars

C16_Witness ==
    /\ pc = "get_wait" /\ getGets = 3 /\ getLogins = 0 /\ firstGet[idx] = 500
    /\ lastResp.status = 500 /\ idx = 2
    /\ inflight = GetRequest(2, token) /\ Len(log) = 0

\* C17: a transport error is caught nowhere: the step in which a request
\* raises takes main straight out (nothing logged, nothing returned to main),
\* after it nothing happens any more (no request, no log record), and the
\* output stays empty, also when answers had already been collected.
C17_TransportPropagates ==
    /\ [][pc' = "raised"
            => /\ pc \in {"login_wait", "get_wait"}
               /\ inflight # NoReq /\ inflight' = NoReq
               /\ UNCHANGED <<log, answers, fetched, resp, posts, gets>>]_vars
    /\ [][pc # "raised"]_vars
    /\ [](pc = "raised" => (Output = <<>> /\ inflight = NoReq))

C17_Witness ==
    /\ pc = "raised" /\ answers = <<"A1", "A2">> /\ idx = 3 /\ getGets = 1
    /\ Output = <<>>

\* C18: a 200 whose answer is missing, null or empty is handled like a failed
\* fetch: main logs the error for that url, does not accumulate the value and
\* goes on to the next url; so every accumulated and every output value is a
\* non-empty string.
C18_NonEmptyOutput ==
    /\ [](\A i \in 1..Len(answers) : answers[i] \notin {None, ""})
    /\ [](\A i \in 1..Len(Output) : Output[i] \notin {None, ""})
    /\ [](pc = "done" => Output = answers)
    /\ [][(pc = "get_wait" /\ pc' = "main_check")
            => resp' = (IF lastResp'.body.has THEN lastResp'.body.val ELSE None)]_vars
    /\ [][(pc = "main_check" /\ resp \in {None, ""})
            => /\ log' = Append(log, LogRec("ERROR", "Error getting secret at",
                                            <<secret_urls[idx]>>))
               /\ answers' = answers
               /\ fetched' = Append(fetched, resp)
               /\ idx' = idx + 1
               /\ pc' = "main_loop"]_vars

C18_Witness ==
    /\ pc = "done" /\ fetched = <<"", None, "A3">>
    /\ firstGet = <<200, 200, 200>> /\ Output = <<"A3">>

\* C19: inside a try_get call every GET sent after a 401 recovery carries the
\* non-empty token the latest try_login call returned; a re-login that
\* returned None or the empty string (a 200 whose access_token is missing,
\* null or empty) is a failed re-login: the error is logged and try_get
\* returns None without another GET.
C19_ReloginToken ==
    /\ []((inflight.method = "GET" /\ getLogins > 0)
            => (login_ret \notin {None, ""} /\ get_token = login_ret
                    /\ inflight.auth = "Bearer " \o login_ret))
    /\ [][(pc = "get_relogin" /\ login_ret \in {None, ""})
            => /\ pc' = "main_check"
               /\ resp' = None
               /\ log' = Append(log, LogRec("ERROR", "Error getting new access token", <<>>))
               /\ gets' = gets /\ posts' = posts /\ inflight' = NoReq]_vars
    /\ []((pc = "get_relogin" /\ lastResp.status = 200)
            => login_ret = (IF lastResp.body.has THEN lastResp.body.val ELSE None))

C19_Witness ==
    /\ pc = "main_check" /\ getLogins = 1 /\ getGets = 1
    /\ lastResp = [status |-> 200, body |-> [has |-> TRUE, val |-> ""]]
    /\ login_ret = "" /\ resp = None
    /\ Len(log) > 0 /\ log[Len(log)].msg = "Error getting new access token"

====
